---- MODULE Spec2Model ----
(***************************************************************************)
(* Model of the tbot1 repository: the order router (kite_trader.py) and    *)
(* the scan pipeline with its signal evaluator (app.py).                   *)
(***************************************************************************)
EXTENDS Integers, Sequences, FiniteSets, TLC

VARIABLES
    today,          \* calendar day of the running process (expiries are days)
    _INSTRUMENTS,   \* kite_trader._INSTRUMENTS: <<>> is None, <<u>> the cached list u
    AUTO_TRADE,     \* config.AUTO_TRADE
    positions,      \* the broker's net position book: tradingsymbol -> net quantity
    fetches,        \* number of instrument lists the broker has delivered
    last,           \* what the last order-router operation did
    loopIdx,        \* app.py pipeline: number of stocks the loop has handled
    raws,           \* app.py pipeline: what fetch_data returned, per handled stock
    frames,         \* app.py pipeline: the list `frames`
    pipe,           \* app.py pipeline: "loop", "stopped" (st.stop) or "concat"
    table,          \* app.py pipeline: df of line 135, one Stock tag per row
    row,            \* one row of df as apply_strategy reads it
    flags,          \* the four flag columns of that row
    stage,          \* "indicators", "strategy" (after line 137) or "dashboard"
    shown           \* which of the two views render the row

routerVars == <<today, _INSTRUMENTS, AUTO_TRADE, positions, fetches, last>>
pipeVars == <<loopIdx, raws, frames, pipe, table>>
rowVars == <<row, flags, stage, shown>>
vars == <<today, _INSTRUMENTS, AUTO_TRADE, positions, fetches, last,
          loopIdx, raws, frames, pipe, table, row, flags, stage, shown>>

-----------------------------------------------------------------------------
(* Bounds of the exploration.                                              *)

MaxDay == 2          \* days the process lives through
MaxUniverse == 2     \* contracts in one instrument list of the broker
MaxSpotSpan == 3     \* spot prices range over 10523..10523+MaxSpotSpan (10525 is a tie)
MaxQty == 1          \* largest |net quantity| the account starts with
MaxFaultAt == 3      \* the latest broker call of an operation that may raise
MaxStocks == 3       \* symbols in the scan list
MaxBad == 1          \* unparseable rows in one download
MaxBarDelta == 1     \* download lengths range this far around MIN_BARS

(* Program constants.                                                      *)

STRIKE_STEP == 50    \* kite_trader.py: round(spot / 50) * 50
ORDER_QTY == 1       \* config.ORDER_QTY
MIN_BARS == 160      \* app.py: MIN_BARS

-----------------------------------------------------------------------------
(* kite_trader.py: the order router.                                       *)

None == <<>>

Names == {"NIFTY", "BANKNIFTY"}
Sides == {"CALL", "PUT"}
Days == 1..MaxDay
LowSpot == 210 * STRIKE_STEP + 23
Spots == LowSpot..(LowSpot + MaxSpotSpan)

\* Python 3 round() of the quotient n / d: to the nearest integer, ties to even.
PyRound(n, d) ==
    LET q == n \div d
        r == n % d
    IN  IF 2 * r < d THEN q
        ELSE IF 2 * r > d THEN q + 1
        ELSE IF q % 2 = 0 THEN q ELSE q + 1

\* line 60: strike = round(spot / 50) * 50
AtmStrike(spot) == PyRound(spot, STRIKE_STEP) * STRIKE_STEP

Strikes == {AtmStrike(s) : s \in Spots}

\* An instrument of kite.instruments("NFO"). Its tradingsymbol is determined by
\* (name, expiry, strike, instrument_type), so the record stands for it.
\* The listed universe: every NIFTY contract of the strikes and expiries in range, and
\* of the other underlying the calls of the lowest strike.
Contracts ==
    {c \in [name : Names, expiry : Days, strike : Strikes,
            instrument_type : {"CE", "PE"}] :
        \/ c.name = "NIFTY"
        \/ c.instrument_type = "CE" /\ \A k \in Strikes : c.strike <= k}

NoContract == [name |-> "NONE", expiry |-> 0, strike |-> 0, instrument_type |-> "NONE"]

\* The broker lists the contracts that have not expired.
Listed(day) == {c \in Contracts : c.expiry >= day}

RECURSIVE UpTo(_, _)
UpTo(S, k) ==
    IF k = 0 THEN {{}}
    ELSE LET P == UpTo(S, k - 1) IN P \cup {p \cup {c} : p \in P, c \in S}

\* What kite.instruments("NFO") may return on a given day.
Universes(day) == UpTo(Listed(day), MaxUniverse)

\* One broker call: the call is recorded; the faultAt-th call of the operation raises.
BrokerCall(calls, api, faultAt) ==
    [calls |-> Append(calls, api),
     err |-> IF Len(calls) + 1 = faultAt THEN "BrokerFault" ELSE "none"]

\* line 29, with the answer b of kite.instruments("NFO")
Assigned(b, listing) ==
    IF b.err # "none"
    THEN [cache |-> None, calls |-> b.calls, err |-> b.err, fetched |-> 0]
    ELSE [cache |-> <<listing>>, calls |-> b.calls, err |-> "none", fetched |-> 1]

load_instrumentsRefetch(cache, listing, calls, faultAt) ==
    Assigned(BrokerCall(calls, "instruments", faultAt), listing)

\* lines 26-30
load_instruments(cache, listing, calls, faultAt) ==
    IF cache = None
    THEN Assigned(BrokerCall(calls, "instruments", faultAt), listing)
    ELSE [cache |-> cache, calls |-> calls, err |-> "none", fetched |-> 0]

\* lines 36-38: the broker answers with the spot price, or raises
get_nifty_spot(spot, calls, faultAt) ==
    [spot |-> spot] @@ BrokerCall(calls, "ltp", faultAt)

SetMin(S) == CHOOSE x \in S : \A y \in S : x <= y

\* line 47: the NIFTY expiries of an instrument list
NiftyExpiries(u) == {c.expiry : c \in {d \in u : d.name = "NIFTY"}}

\* lines 46-49: expiries[0] of the sorted expiries; IndexError when there are none
FirstExpiry(li) ==
    IF li.err # "none" THEN [expiry |-> 0] @@ li
    ELSE IF NiftyExpiries(li.cache[1]) = {}
    THEN [expiry |-> 0, err |-> "IndexError"] @@ li
    ELSE [expiry |-> SetMin(NiftyExpiries(li.cache[1]))] @@ li

\* lines 44-49
get_current_expiry(cache, listing, calls, faultAt) ==
    FirstExpiry(load_instruments(cache, listing, calls, faultAt))

OptionType(side) == IF side = "CALL" THEN "CE" ELSE "PE"

\* What get_atm_option_symbol leaves behind when it raises e.
Unresolved(strike, e, cache, calls, fetched) ==
    [symbol |-> NoContract, strike |-> strike, expiry |-> 0, cache |-> cache,
     calls |-> calls, err |-> e, fetched |-> fetched]

\* lines 65-72: the instruments that match; the list holds each contract once
Matching(u, expiry, strike, side) ==
    {ins \in u : /\ ins.name = "NIFTY"
                 /\ ins.expiry = expiry
                 /\ ins.strike = strike
                 /\ ins.instrument_type = OptionType(side)}

\* lines 63-74: the first instrument that matches, or the exception
FindInstrument(side, strike, ex, li) ==
    IF li.err # "none"
    THEN Unresolved(strike, li.err, li.cache, li.calls, ex.fetched + li.fetched)
    ELSE IF Matching(li.cache[1], ex.expiry, strike, side) = {}
    THEN Unresolved(strike, "NotFound", li.cache, li.calls, ex.fetched + li.fetched)
    ELSE [symbol |-> CHOOSE ins \in Matching(li.cache[1], ex.expiry, strike, side) : TRUE,
          strike |-> strike, expiry |-> ex.expiry, cache |-> li.cache,
          calls |-> li.calls, err |-> "none", fetched |-> ex.fetched + li.fetched]

\* lines 61-74, with the result ex of get_current_expiry()
ResolveWith(side, strike, listing, faultAt, ex) ==
    IF ex.err # "none" THEN Unresolved(strike, ex.err, ex.cache, ex.calls, ex.fetched)
    ELSE FindInstrument(side, strike, ex,
                        load_instruments(ex.cache, listing, ex.calls, faultAt))

\* lines 59-74, with the result sp of get_nifty_spot()
ResolveAt(side, cache, listing, faultAt, sp) ==
    IF sp.err # "none" THEN Unresolved(AtmStrike(sp.spot), sp.err, cache, sp.calls, 0)
    ELSE ResolveWith(side, AtmStrike(sp.spot), listing, faultAt,
                     get_current_expiry(cache, listing, sp.calls, faultAt))

\* lines 55-74
get_atm_option_symbol(side, spot, cache, listing, faultAt) ==
    ResolveAt(side, cache, listing, faultAt, get_nifty_spot(spot, <<>>, faultAt))

\* kite.place_order as the broker books it: BUY adds to the net quantity, SELL subtracts
Book(pos, order) ==
    [pos EXCEPT ![order.tradingsymbol] =
        IF order.transaction_type = "BUY" THEN @ + order.quantity ELSE @ - order.quantity]

Order(txn, sym, qty) ==
    [transaction_type |-> txn, tradingsymbol |-> sym, quantity |-> qty,
     order_type |-> "MARKET"]

\* What place_entry returns (status, symbol) and leaves behind.
EntryResult(r, status, e, calls, ords, pos) ==
    [status |-> status, err |-> e, symbol |-> r.symbol, strike |-> r.strike,
     expiry |-> r.expiry, cache |-> r.cache, calls |-> calls, orders |-> ords,
     positions |-> pos, fetched |-> r.fetched]

\* lines 87-98, with the answer b of kite.place_order
Submitted(r, status, pos, b) ==
    IF b.err # "none" THEN EntryResult(r, "raised", b.err, b.calls, <<>>, pos)
    ELSE EntryResult(r, status, "none", b.calls, <<Order("BUY", r.symbol, ORDER_QTY)>>,
                     Book(pos, Order("BUY", r.symbol, ORDER_QTY)))

EnteredNoPaper(r, autoTrade, pos, faultAt) ==
    IF r.err # "none" THEN EntryResult(r, "raised", r.err, r.calls, <<>>, pos)
    ELSE Submitted(r, IF autoTrade THEN "live" ELSE "paper", pos,
                   BrokerCall(r.calls, "place_order", faultAt))

place_entryNoPaper(side, spot, cache, listing, autoTrade, pos, faultAt) ==
    EnteredNoPaper(get_atm_option_symbol(side, spot, cache, listing, faultAt), autoTrade,
                   pos, faultAt)

\* lines 83-98, with the result r of get_atm_option_symbol
Entered(r, autoTrade, pos, faultAt) ==
    IF r.err # "none" THEN EntryResult(r, "raised", r.err, r.calls, <<>>, pos)
    ELSE IF ~autoTrade THEN EntryResult(r, "paper", "none", r.calls, <<>>, pos)
    ELSE Submitted(r, "live", pos, BrokerCall(r.calls, "place_order", faultAt))

\* lines 80-98
place_entry(side, spot, cache, listing, autoTrade, pos, faultAt) ==
    Entered(get_atm_option_symbol(side, spot, cache, listing, faultAt), autoTrade, pos,
            faultAt)

\* lines 109-119, with the answer b of kite.place_order for order o
Sold(pos, o, b) ==
    IF b.err # "none"
    THEN [err |-> b.err, calls |-> b.calls, orders |-> <<>>, positions |-> pos]
    ELSE [err |-> "none", calls |-> b.calls, orders |-> <<o>>, positions |-> Book(pos, o)]

exit_positionClose(sym, qty, autoTrade, pos, calls, faultAt) ==
    IF ~autoTrade
    THEN [err |-> "none", calls |-> calls, orders |-> <<>>, positions |-> pos]
    ELSE Sold(pos, Order(IF pos[sym] < 0 THEN "BUY" ELSE "SELL", sym, qty),
              BrokerCall(calls, "place_order", faultAt))

\* lines 104-119
exit_position(sym, qty, autoTrade, pos, calls, faultAt) ==
    IF ~autoTrade
    THEN [err |-> "none", calls |-> calls, orders |-> <<>>, positions |-> pos]
    ELSE Sold(pos, Order("SELL", sym, qty), BrokerCall(calls, "place_order", faultAt))

\* kite.positions()["net"]: one entry per symbol the broker lists, in the broker's order
NetList(pos, netOrder) ==
    [i \in 1..Len(netOrder) |->
        [tradingsymbol |-> netOrder[i], quantity |-> pos[netOrder[i]]]]

\* line 127: [p for p in positions if p["quantity"] != 0]
RECURSIVE OpenOnly(_)
OpenOnly(lst) ==
    IF lst = <<>> THEN <<>>
    ELSE IF Head(lst).quantity # 0 THEN <<Head(lst)>> \o OpenOnly(Tail(lst))
    ELSE OpenOnly(Tail(lst))

\* lines 126-127, with the answer b of kite.positions()
OpenOf(b, net, open) ==
    IF b.err # "none" THEN [net |-> <<>>, open |-> <<>>] @@ b
    ELSE [net |-> net, open |-> open] @@ b

get_open_positionsAll(pos, netOrder, calls, faultAt) ==
    OpenOf(BrokerCall(calls, "positions", faultAt), NetList(pos, netOrder),
            NetList(pos, netOrder))

\* lines 125-127
get_open_positions(pos, netOrder, calls, faultAt) ==
    OpenOf(BrokerCall(calls, "positions", faultAt), NetList(pos, netOrder),
            OpenOnly(NetList(pos, netOrder)))

Abs(n) == IF n < 0 THEN -n ELSE n

\* line 139, with the outcome x of exit_position for the position p
Exited(acc, p, x) ==
    [err |-> x.err, calls |-> x.calls, orders |-> acc.orders \o x.orders,
     positions |-> x.positions, exited |-> Append(acc.exited, p.tradingsymbol)]

\* lines 138-139: the loop; an exit_position that raises ends it
RECURSIVE ExitEach(_, _, _, _)
ExitEach(open, autoTrade, acc, faultAt) ==
    IF open = <<>> \/ acc.err # "none" THEN acc
    ELSE ExitEach(Tail(open), autoTrade,
                  Exited(acc, Head(open),
                         exit_position(Head(open).tradingsymbol,
                                       Abs(Head(open).quantity), autoTrade,
                                       acc.positions, acc.calls, faultAt)),
                  faultAt)

\* What auto_exit has done before its loop.
NothingExited(pos, err, calls) ==
    [err |-> err, calls |-> calls, orders |-> <<>>, positions |-> pos, exited |-> <<>>]

\* lines 137-139, with the result g of get_open_positions()
ExitAll(g, autoTrade, pos, faultAt) ==
    [net |-> g.net, open |-> g.open]
    @@ ExitEach(g.open, autoTrade, NothingExited(pos, g.err, g.calls), faultAt)

\* lines 133-139
auto_exit(exit_signal, autoTrade, pos, netOrder, faultAt) ==
    IF ~exit_signal
    THEN [net |-> <<>>, open |-> <<>>] @@ NothingExited(pos, "none", <<>>)
    ELSE ExitAll(get_open_positions(pos, netOrder, <<>>, faultAt), autoTrade, pos,
                 faultAt)

\* lines 145-146
HasOpen(g) == [value |-> Len(g.open) > 0] @@ g

has_open_position(pos, netOrder, faultAt) ==
    HasOpen(get_open_positions(pos, netOrder, <<>>, faultAt))

-----------------------------------------------------------------------------
(* The order router as a state machine.                                    *)

Idle ==
    [op |-> "none", side |-> "none", spot |-> 0, signal |-> FALSE, qty |-> 0,
     status |-> "none", err |-> "none", symbol |-> NoContract, strike |-> 0,
     expiry |-> 0, calls |-> <<>>, orders |-> <<>>, exited |-> <<>>, net |-> <<>>,
     open |-> <<>>]

\* The two contracts the account may hold when the process starts.
HeldSymbols ==
    {c \in Contracts : c.name = "NIFTY" /\ c.expiry = 1 /\ c.strike = SetMin(Strikes)}

Flat == [c \in Contracts |-> 0]

StartBooks ==
    {[c \in Contracts |-> IF c \in HeldSymbols THEN q[c] ELSE 0] :
        q \in [HeldSymbols -> (-MaxQty)..MaxQty]}

OpenSymbols(pos) == {c \in Contracts : pos[c] # 0}

Perms(S) ==
    {f \in [1..Cardinality(S) -> S] : \A i, j \in 1..Cardinality(S) : f[i] = f[j] => i = j}

\* The contracts the broker may list with a zero net quantity (closed earlier today).
Watch == {c \in Contracts : c.name = "NIFTY" /\ c.expiry = 1}

\* The orders in which the broker may list the net positions: every symbol with a
\* non-zero quantity once, and possibly a flat one.
NetOrders(pos) ==
    UNION {Perms(OpenSymbols(pos) \cup Z) :
              Z \in {{}} \cup {{c} : c \in Watch \ OpenSymbols(pos)}}

WithinCap(pos) == \A c \in Contracts : Abs(pos[c]) <= MaxQty

RECURSIVE Exposure(_, _)
Exposure(pos, S) ==
    IF S = {} THEN 0
    ELSE LET c == CHOOSE x \in S : TRUE IN Abs(pos[c]) + Exposure(pos, S \ {c})

\* The exploration follows the book while a standalone order leaves at most MaxQty open.
Capped(pos) == Exposure(pos, Contracts) <= MaxQty

\* Which broker call of an operation raises (0: none), of the n calls it can make.
FaultPoints(n) == 0..(IF n < MaxFaultAt THEN n ELSE MaxFaultAt)

\* What the broker would answer to kite.instruments("NFO") now. The answer matters while
\* nothing is cached; afterwards one answer, differing from every cached list, stands
\* for all.
Listings == IF _INSTRUMENTS = None THEN Universes(today) ELSE {Listed(today)}

\* The state after place_entry(side) has returned or raised r.
EntryStep(side, spot, faultAt, r) ==
    /\ Capped(r.positions)
    /\ _INSTRUMENTS' = r.cache
    /\ positions' = r.positions
    /\ fetches' = fetches + r.fetched
    /\ last' = [Idle EXCEPT !.op = "place_entry", !.side = side,
                   !.spot = IF r.calls[1] = "ltp" /\ faultAt # 1 THEN spot ELSE 0,
                   !.status = r.status, !.err = r.err, !.symbol = r.symbol,
                   !.strike = r.strike, !.expiry = r.expiry, !.calls = r.calls,
                   !.orders = r.orders]

PlaceEntry ==
    /\ \E side \in Sides, spot \in Spots, listing \in Listings,
          faultAt \in FaultPoints(1 + (IF _INSTRUMENTS = None THEN 1 ELSE 0)
                                     + (IF AUTO_TRADE THEN 1 ELSE 0)) :
        EntryStep(side, spot, faultAt,
                  place_entry(side, spot, _INSTRUMENTS, listing, AUTO_TRADE, positions,
                              faultAt))
    /\ UNCHANGED <<today, AUTO_TRADE>>
    /\ UNCHANGED <<pipeVars, rowVars>>

\* The state after exit_position(sym, qty) has returned or raised r.
ExitStep(sym, qty, r) ==
    /\ Capped(r.positions)
    /\ positions' = r.positions
    /\ last' = [Idle EXCEPT !.op = "exit_position", !.symbol = sym, !.qty = qty,
                   !.err = r.err, !.calls = r.calls, !.orders = r.orders,
                   !.status = IF r.err = "none" THEN "returned" ELSE "raised"]

ExitPosition ==
    /\ \E sym \in HeldSymbols, qty \in 1..MaxQty,
          faultAt \in FaultPoints(IF AUTO_TRADE THEN 1 ELSE 0) :
        ExitStep(sym, qty, exit_position(sym, qty, AUTO_TRADE, positions, <<>>, faultAt))
    /\ UNCHANGED <<today, _INSTRUMENTS, AUTO_TRADE, fetches>>
    /\ UNCHANGED <<pipeVars, rowVars>>

\* The state after auto_exit(exit_signal) has returned or raised r.
AutoExitStep(exit_signal, r) ==
    /\ positions' = r.positions
    /\ last' = [Idle EXCEPT !.op = "auto_exit", !.signal = exit_signal,
                   !.err = r.err, !.calls = r.calls, !.orders = r.orders,
                   !.exited = r.exited, !.net = r.net, !.open = r.open,
                   !.status = IF r.err = "none" THEN "returned" ELSE "raised"]

AutoExit ==
    /\ WithinCap(positions)
    /\ \E exit_signal \in BOOLEAN :
       \E netOrder \in (IF exit_signal THEN NetOrders(positions) ELSE {<<>>}),
          faultAt \in FaultPoints(IF ~exit_signal THEN 0
                                  ELSE IF AUTO_TRADE
                                       THEN 1 + Cardinality(OpenSymbols(positions))
                                       ELSE 1) :
        AutoExitStep(exit_signal,
                     auto_exit(exit_signal, AUTO_TRADE, positions, netOrder, faultAt))
    /\ UNCHANGED <<today, _INSTRUMENTS, AUTO_TRADE, fetches>>
    /\ UNCHANGED <<pipeVars, rowVars>>

\* The state after has_open_position() has returned or raised r.
HasOpenStep(r) ==
    last' = [Idle EXCEPT !.op = "has_open_position", !.err = r.err,
                !.calls = r.calls, !.net = r.net, !.open = r.open,
                !.status = IF r.err # "none" THEN "raised"
                           ELSE IF r.value THEN "True" ELSE "False"]

HasOpenPosition ==
    /\ \E netOrder \in NetOrders(positions), faultAt \in FaultPoints(1) :
        HasOpenStep(has_open_position(positions, netOrder, faultAt))
    /\ UNCHANGED <<today, _INSTRUMENTS, AUTO_TRADE, positions, fetches>>
    /\ UNCHANGED <<pipeVars, rowVars>>

\* The process outlives the day: the calendar advances, nothing in the process changes.
Tick ==
    /\ today < MaxDay
    /\ today' = today + 1
    /\ last' = Idle
    /\ UNCHANGED <<_INSTRUMENTS, AUTO_TRADE, positions, fetches>>
    /\ UNCHANGED <<pipeVars, rowVars>>

PipeIdle ==
    /\ loopIdx = 0 /\ raws = <<>> /\ frames = <<>> /\ pipe = "loop" /\ table = <<>>

RowIdle ==
    /\ row = <<>> /\ flags = <<>> /\ stage = "none" /\ shown = <<>>

RouterInit(books) ==
    /\ today = 1
    /\ _INSTRUMENTS = None
    /\ AUTO_TRADE \in BOOLEAN
    /\ positions \in books
    /\ fetches = 0
    /\ last = Idle

\* The router from a flat account.
Init == RouterInit({Flat}) /\ PipeIdle /\ RowIdle

Next == PlaceEntry \/ ExitPosition \/ AutoExit \/ HasOpenPosition \/ Tick

Spec == Init /\ [][Next]_vars

\* The exit operations from an account that holds long and short positions.
ExitInit == RouterInit(StartBooks) /\ PipeIdle /\ RowIdle

ExitNext == ExitPosition \/ AutoExit \/ HasOpenPosition

ExitSpec == ExitInit /\ [][ExitNext]_vars

-----------------------------------------------------------------------------
(* app.py: the scan pipeline, lines 122-135.                               *)

\* load_stocks(): the unique symbols of the scan list, here numbered.
stocks == [i \in 1..MaxStocks |-> i]

\* What yf.download may return: a number of bars, some of them with a value that
\* pd.to_numeric cannot parse.
RawLens == (0..MaxBad) \cup ((MIN_BARS - MaxBarDelta)..(MIN_BARS + MaxBarDelta))

Downloads == {d \in [rows : RawLens, bad : 0..MaxBad] : d.bad <= d.rows}

\* lines 31-52: None for an empty download, else the frame without its unparseable
\* rows; a frame is modelled by its number of rows.
fetch_data(download) ==
    IF download.rows = 0 THEN None ELSE <<download.rows - download.bad>>

\* line 126
QualifiesAbove(raw) == raw # None /\ raw[1] > MIN_BARS

Qualifies(raw) == raw # None /\ raw[1] >= MIN_BARS

\* lines 127-128: add_indicators keeps the rows; the frame is tagged with its stock
Tagged(raw, stock) == [Stock |-> stock, len |-> raw[1]]

\* line 135: pd.concat(frames, ignore_index=True); a row is (Stock, its bar in the frame)
RECURSIVE Concat(_)
Concat(fs) ==
    IF fs = <<>> THEN <<>>
    ELSE [b \in 1..Head(fs).len |-> [Stock |-> Head(fs).Stock, Bar |-> b]]
         \o Concat(Tail(fs))

\* lines 124-129: one iteration of the loop
FetchStep ==
    /\ pipe = "loop"
    /\ loopIdx < Len(stocks)
    /\ \E download \in Downloads :
        LET stock == stocks[loopIdx + 1]
            raw == fetch_data(download)
        IN  /\ raws' = Append(raws, raw)
            /\ frames' = IF Qualifies(raw) THEN Append(frames, Tagged(raw, stock))
                         ELSE frames
    /\ loopIdx' = loopIdx + 1
    /\ UNCHANGED <<pipe, table>>
    /\ UNCHANGED <<routerVars, rowVars>>

\* lines 131-135: st.stop() without frames, else the aggregated table
Aggregate ==
    /\ pipe = "loop"
    /\ loopIdx = Len(stocks)
    /\ IF frames = <<>>
       THEN pipe' = "stopped" /\ table' = <<>>
       ELSE pipe' = "concat" /\ table' = Concat(frames)
    /\ UNCHANGED <<loopIdx, raws, frames>>
    /\ UNCHANGED <<routerVars, rowVars>>

RouterIdle ==
    /\ today = 1 /\ _INSTRUMENTS = None /\ AUTO_TRADE = FALSE /\ positions = Flat
    /\ fetches = 0 /\ last = Idle

PipeInit == RouterIdle /\ PipeIdle /\ RowIdle

PipeNext == FetchStep \/ Aggregate

PipeSpec == PipeInit /\ [][PipeNext]_vars

-----------------------------------------------------------------------------
(* app.py: apply_strategy and the dashboard views, lines 90-161, on one    *)
(* row of the aggregated table.                                            *)

\* A cell is <<v>> for the number v and <<>> for NaN.
NaN == <<>>
Num(v) == <<v>>

LeNaNPasses(a, b) == a = NaN \/ b = NaN \/ a[1] <= b[1]

\* pandas comparisons: False when either side is NaN
Le(a, b) == a # NaN /\ b # NaN /\ a[1] <= b[1]
Ge(a, b) == a # NaN /\ b # NaN /\ a[1] >= b[1]
Lt(a, b) == a # NaN /\ b # NaN /\ a[1] < b[1]
Gt(a, b) == a # NaN /\ b # NaN /\ a[1] > b[1]

\* Series.between(lo, hi), inclusive on both sides
between(a, lo, hi) == Ge(a, Num(lo)) /\ Le(a, Num(hi))

\* (a - b).abs(): NaN when either side is NaN
AbsDiff(a, b) == IF a = NaN \/ b = NaN THEN NaN ELSE Num(Abs(a[1] - b[1]))

\* lines 96-102
CALL_ENTRY(r) ==
    /\ Le(r["BB60"], Num(35))
    /\ between(r["RSI20"], 65, 100)
    /\ between(r["WILLR28"], -20, 0)
    /\ Ge(r["+DI6"], Num(40)) /\ Le(r["-DI6"], Num(12))
    /\ Ge(r["+DI20"], Num(35)) /\ Le(r["-DI20"], Num(15))

PUT_ENTRYOr(r) ==
    \/ Le(r["BB60"], Num(35))
    \/ /\ between(r["RSI20"], 1, 40)
       /\ between(r["WILLR28"], -100, -80)
       /\ Ge(r["-DI6"], Num(35)) /\ Le(r["+DI6"], Num(15))
       /\ Ge(r["-DI20"], Num(30)) /\ Le(r["+DI20"], Num(15))

\* lines 104-110
PUT_ENTRY(r) ==
    /\ Le(r["BB60"], Num(35))
    /\ between(r["RSI20"], 1, 40)
    /\ between(r["WILLR28"], -100, -80)
    /\ Ge(r["-DI6"], Num(35)) /\ Le(r["+DI6"], Num(15))
    /\ Ge(r["-DI20"], Num(30)) /\ Le(r["+DI20"], Num(15))

\* line 112
di_diff(r) == AbsDiff(r["+DI20"], r["-DI20"])

CALL_EXITInclusive(r) == Lt(di_diff(r), Num(10)) \/ Le(r["Close"], r["MA8"])

\* line 114
CALL_EXIT(r) == Lt(di_diff(r), Num(10)) \/ Lt(r["Close"], r["MA8"])

\* line 115
PUT_EXIT(r) == Lt(di_diff(r), Num(10)) \/ Gt(r["Close"], r["MA8"])

\* lines 90-117
apply_strategy(r) ==
    [CALL_ENTRY |-> CALL_ENTRY(r), PUT_ENTRY |-> PUT_ENTRY(r),
     CALL_EXIT |-> CALL_EXIT(r), PUT_EXIT |-> PUT_EXIT(r)]

\* line 140: datetime.time(10, 0), in minutes of the day
TenOClock == 10 * 60

\* lines 139-140
KeptByTime(r) == r["Time"][1] >= TenOClock

\* lines 155-161: the rows of the two views
Views(r, f) ==
    [CALL |-> KeptByTime(r) /\ f.CALL_ENTRY /\ ~f.CALL_EXIT,
     PUT |-> KeptByTime(r) /\ f.PUT_ENTRY /\ ~f.PUT_EXIT]

\* The indicator values explored: NaN, each threshold of the rules and its neighbour.
BB60s == {NaN, Num(35), Num(36)}
RSI20s == {NaN, Num(0), Num(1), Num(40), Num(41), Num(64), Num(65), Num(100)}
WILLR28s == {NaN, Num(-100), Num(-80), Num(-79), Num(-21), Num(-20), Num(0)}
PlusDI6s == {NaN, Num(15), Num(16), Num(39), Num(40)}
MinusDI6s == {NaN, Num(12), Num(13), Num(34), Num(35)}
PlusDI20s == {NaN, Num(15), Num(16), Num(25), Num(34), Num(35)}
MinusDI20s == {NaN, Num(15), Num(16), Num(29), Num(30)}
Closes == {Num(100)}
MA8s == {NaN, Num(99), Num(100), Num(101)}
Times == {Num(TenOClock - 5), Num(TenOClock)}

NoFlags ==
    [CALL_ENTRY |-> FALSE, PUT_ENTRY |-> FALSE, CALL_EXIT |-> FALSE, PUT_EXIT |-> FALSE]

NoViews == [CALL |-> FALSE, PUT |-> FALSE]

\* line 137
ApplyStrategy ==
    /\ stage = "indicators"
    /\ flags' = apply_strategy(row)
    /\ stage' = "strategy"
    /\ UNCHANGED <<row, shown>>
    /\ UNCHANGED <<routerVars, pipeVars>>

\* lines 139-161
Dashboard ==
    /\ stage = "strategy"
    /\ shown' = Views(row, flags)
    /\ stage' = "dashboard"
    /\ UNCHANGED <<row, flags>>
    /\ UNCHANGED <<routerVars, pipeVars>>

RowInit ==
    /\ RouterIdle /\ PipeIdle
    /\ \E bb \in BB60s, rsi \in RSI20s, willr \in WILLR28s, p6 \in PlusDI6s,
          m6 \in MinusDI6s, p20 \in PlusDI20s, m20 \in MinusDI20s, cl \in Closes,
          ma \in MA8s, tm \in Times :
        row = [c \in {"BB60", "RSI20", "WILLR28", "+DI6", "-DI6", "+DI20", "-DI20",
                      "Close", "MA8", "Time"} |->
                  CASE c = "BB60" -> bb [] c = "RSI20" -> rsi [] c = "WILLR28" -> willr
                    [] c = "+DI6" -> p6 [] c = "-DI6" -> m6 [] c = "+DI20" -> p20
                    [] c = "-DI20" -> m20 [] c = "Close" -> cl [] c = "MA8" -> ma
                    [] c = "Time" -> tm]
    /\ flags = NoFlags
    /\ stage = "indicators"
    /\ shown = NoViews

RowNext == ApplyStrategy \/ Dashboard

RowSpec == RowInit /\ [][RowNext]_vars

-----------------------------------------------------------------------------
(* Claims about the order router.                                          *)

Elems(seq) == {seq[i] : i \in 1..Len(seq)}

Count(seq, x) == Cardinality({i \in 1..Len(seq) : seq[i] = x})

\* What the broker reported for a symbol in the last positions listing (0: not listed).
ReportedQty(c) ==
    IF \E i \in 1..Len(last.net) : last.net[i].tradingsymbol = c
    THEN (CHOOSE p \in Elems(last.net) : p.tradingsymbol = c).quantity
    ELSE 0

\* C1: auto_exit(True) that returns has passed every position the broker reported with
\* a non-zero net quantity to exit_position exactly once, whatever its symbol or side,
\* and no position of zero quantity; it never exits a position twice or a flat one, even
\* when a broker call raises; auto_exit(False) exits nothing and calls the broker never.
C1_AutoExitExitsEveryOpenPosition ==
    last.op = "auto_exit" =>
        /\ ~last.signal =>
              last.exited = <<>> /\ last.calls = <<>> /\ last.orders = <<>>
        /\ \A c \in Contracts :
              /\ Count(last.exited, c) <= 1
              /\ ReportedQty(c) = 0 => Count(last.exited, c) = 0
              /\ last.signal /\ last.err = "none" /\ ReportedQty(c) # 0
                    => Count(last.exited, c) = 1

C1_Witness ==
    /\ last.op = "auto_exit" /\ last.signal /\ last.err = "none"
    /\ Len(last.exited) = 2 /\ last.exited[1] # last.exited[2]
    /\ \E c \in Contracts : ReportedQty(c) > 0
    /\ \E c \in Contracts : ReportedQty(c) < 0
    /\ \E i \in 1..Len(last.net) : last.net[i].quantity = 0

RouterOps == {"place_entry", "exit_position", "auto_exit"}

\* C2 as stated: in paper mode no order-router operation invokes any broker API, so no
\* broker failure surfaces from it.
C2_PaperModeMakesNoBrokerCall ==
    ~AUTO_TRADE /\ last.op \in RouterOps =>
        last.calls = <<>> /\ last.err # "BrokerFault"

\* C2 amended: in paper mode no operation places an order and the book is untouched;
\* exit_position and auto_exit(False) call the broker never; place_entry still calls the
\* spot lookup and, on first access, the instrument list, and auto_exit(True) still calls
\* the positions listing.
C2_PaperModePlacesNoOrder ==
    ~AUTO_TRADE /\ last.op \in RouterOps =>
        /\ "place_order" \notin Elems(last.calls)
        /\ last.orders = <<>>
        /\ positions = Flat
        /\ last.op = "exit_position" => last.calls = <<>> /\ last.err = "none"
        /\ last.op = "auto_exit" /\ ~last.signal => last.calls = <<>> /\ last.err = "none"
        /\ last.op = "auto_exit" /\ last.signal => last.calls = <<"positions">>
        /\ last.op = "place_entry" =>
              /\ last.calls[1] = "ltp"
              /\ Elems(last.calls) \subseteq {"ltp", "instruments"}

C2_Witness ==
    /\ ~AUTO_TRADE /\ last.op = "place_entry" /\ last.status = "paper"
    /\ last.calls = <<"ltp", "instruments">>

\* No contract of the list matches the tuple resolved for (side, spot).
NoMatch(u, side, spot) ==
    ~ \E c \in u :
        /\ c.name = "NIFTY"
        /\ c.expiry = SetMin(NiftyExpiries(u))
        /\ c.strike = AtmStrike(spot)
        /\ c.instrument_type = OptionType(side)

\* C3 as stated: whenever the cached instrument list holds no contract matching the
\* resolved tuple (also when it is empty or holds no NIFTY contract), place_entry fails
\* with NotFound and submits no order.
C3_NoMatchRaisesNotFound ==
    /\ last.op = "place_entry" /\ last.spot # 0
    /\ _INSTRUMENTS # None /\ last.err # "BrokerFault"
    /\ NoMatch(_INSTRUMENTS[1], last.side, last.spot)
    => last.err = "NotFound" /\ last.orders = <<>>

IsMultiple(k) == k % STRIKE_STEP = 0

\* C4 as stated: the contract get_atm_option_symbol returns is a NIFTY contract at the
\* multiple of 50 nearest to the spot price, of the nearest future expiry, CE for CALL and
\* PE for PUT.
C4_ResolvedContractIsAtm ==
    last.op = "place_entry" /\ last.symbol # NoContract =>
        /\ last.symbol.name = "NIFTY"
        /\ IsMultiple(last.symbol.strike)
        /\ Abs(last.symbol.strike - last.spot) <= Abs(last.symbol.strike + STRIKE_STEP - last.spot)
        /\ Abs(last.symbol.strike - last.spot) <= Abs(last.symbol.strike - STRIKE_STEP - last.spot)
        /\ last.symbol.instrument_type = (IF last.side = "CALL" THEN "CE" ELSE "PE")
        /\ last.symbol.expiry >= today
        /\ \A e \in NiftyExpiries(_INSTRUMENTS[1]) : e >= today => last.symbol.expiry <= e

\* C5: the broker delivers the instrument list at most once; once a list is cached no
\* operation replaces it, fetches another or calls kite.instruments again.
C5_InstrumentsFetchedOnce ==
    [][/\ fetches' <= 1
       /\ _INSTRUMENTS # None =>
             /\ _INSTRUMENTS' = _INSTRUMENTS
             /\ fetches' = fetches
             /\ "instruments" \notin Elems(last'.calls)]_vars

C5_Witness ==
    /\ today > 1 /\ fetches = 1 /\ _INSTRUMENTS # None
    /\ last.op = "place_entry" /\ last.err = "none"
    /\ last.calls[1] = "ltp" /\ "instruments" \notin Elems(last.calls)

\* C10: in live mode auto_exit(True) that returns has submitted, for each open position
\* in turn, one market SELL order of quantity |net quantity|, whatever the sign; in the
\* broker's book a long position is then flat, and a short one is twice as short.
C10_AutoExitSellsAbsQuantity ==
    AUTO_TRADE /\ last.op = "auto_exit" /\ last.signal /\ last.err = "none" =>
        /\ Len(last.orders) = Cardinality({c \in Contracts : ReportedQty(c) # 0})
        /\ \A i \in 1..Len(last.orders) :
              /\ last.orders[i].transaction_type = "SELL"
              /\ last.orders[i].order_type = "MARKET"
              /\ ReportedQty(last.orders[i].tradingsymbol) # 0
              /\ last.orders[i].quantity = Abs(ReportedQty(last.orders[i].tradingsymbol))
              /\ \A j \in 1..Len(last.orders) :
                    last.orders[i].tradingsymbol = last.orders[j].tradingsymbol => i = j
        /\ \A c \in Contracts :
              /\ ReportedQty(c) > 0 => positions[c] = 0
              /\ ReportedQty(c) < 0 =>
                    positions[c] = 2 * ReportedQty(c) /\ Abs(positions[c]) > Abs(ReportedQty(c))

C10_Witness ==
    /\ AUTO_TRADE /\ last.op = "auto_exit" /\ last.signal /\ last.err = "none"
    /\ \E c \in Contracts : ReportedQty(c) > 0 /\ positions[c] = 0
    /\ \E c \in Contracts : ReportedQty(c) < 0 /\ positions[c] < ReportedQty(c)

-----------------------------------------------------------------------------
(* Claims about the pipeline and the signal evaluator.                     *)

RowsOf(stock) == {i \in 1..Len(table) : table[i].Stock = stock}

\* C6: a symbol whose cleaned series is missing, empty or shorter than 160 bars leaves
\* no frame and no row in the aggregated table, the loop goes on to the symbols after
\* it, and a symbol with at least 160 bars contributes every one of its rows.
C6_ShortSeriesExcluded ==
    /\ Len(raws) = loopIdx
    /\ pipe # "loop" => loopIdx = Len(stocks)
    /\ \A i \in 1..Len(raws) :
          (\E k \in 1..Len(frames) : frames[k].Stock = stocks[i])
              <=> (raws[i] # None /\ raws[i][1] >= MIN_BARS)
    /\ pipe = "concat" =>
          \A i \in 1..Len(stocks) :
              IF raws[i] = None \/ raws[i][1] < MIN_BARS
              THEN RowsOf(stocks[i]) = {}
              ELSE {table[j].Bar : j \in RowsOf(stocks[i])} = 1..raws[i][1]
                   /\ Cardinality(RowsOf(stocks[i])) = raws[i][1]

C6_Witness ==
    /\ pipe = "concat"
    /\ \E i, j, k \in 1..Len(stocks) :
          /\ raws[i] = None /\ raws[j] = <<MIN_BARS - 1>> /\ raws[k] = <<MIN_BARS>>
          /\ i < k /\ j < k
          /\ RowsOf(stocks[i]) = {} /\ RowsOf(stocks[j]) = {}
          /\ Cardinality(RowsOf(stocks[k])) = MIN_BARS

Evaluated == stage \in {"strategy", "dashboard"}

\* C7: on no row, whatever its indicator values, are CALL_ENTRY and PUT_ENTRY both true.
C7_EntriesDisjoint == Evaluated => ~(flags.CALL_ENTRY /\ flags.PUT_ENTRY)

C7_Witness ==
    /\ Evaluated /\ flags.CALL_ENTRY
    /\ row["BB60"] = Num(35) /\ row["RSI20"] = Num(65) /\ row["WILLR28"] = Num(-20)
    /\ row["+DI6"] = Num(40) /\ row["-DI6"] = Num(12)
    /\ row["+DI20"] = Num(35) /\ row["-DI20"] = Num(15)

EntryInputs == {"BB60", "RSI20", "WILLR28", "+DI6", "-DI6", "+DI20", "-DI20"}
ExitInputs == {"+DI20", "-DI20", "Close", "MA8"}

Undefined(cols) == \E c \in cols : row[c] = NaN

\* C8 as stated: an undefined input of a flag's predicate makes that flag false, for
\* each of the four flags.
C8_UndefinedInputClearsFlag ==
    Evaluated =>
        /\ Undefined(EntryInputs) => ~flags.CALL_ENTRY /\ ~flags.PUT_ENTRY
        /\ Undefined(ExitInputs) => ~flags.CALL_EXIT /\ ~flags.PUT_EXIT

DiDefined == row["+DI20"] # NaN /\ row["-DI20"] # NaN
DiClose == DiDefined /\ Abs(row["+DI20"][1] - row["-DI20"][1]) < 10

\* C8 amended: an undefined input makes CALL_ENTRY and PUT_ENTRY false; in CALL_EXIT and
\* PUT_EXIT it makes false only the comparison that reads it, so with MA8 undefined the
\* exit flags are true exactly when |+DI20 - -DI20| < 10, and with +DI20 or -DI20
\* undefined exactly when close < MA8 (CALL_EXIT) or close > MA8 (PUT_EXIT).
C8_UndefinedInputFailsComparison ==
    Evaluated =>
        /\ Undefined(EntryInputs) => ~flags.CALL_ENTRY /\ ~flags.PUT_ENTRY
        /\ row["MA8"] = NaN => (flags.CALL_EXIT <=> DiClose) /\ (flags.PUT_EXIT <=> DiClose)
        /\ ~DiDefined =>
              /\ flags.CALL_EXIT <=> (row["MA8"] # NaN /\ row["Close"][1] < row["MA8"][1])
              /\ flags.PUT_EXIT <=> (row["MA8"] # NaN /\ row["Close"][1] > row["MA8"][1])

C8_Witness ==
    /\ Evaluated /\ row["MA8"] = NaN /\ flags.CALL_EXIT /\ flags.PUT_EXIT
    /\ row["BB60"] = NaN /\ ~flags.CALL_ENTRY

\* C9: on a row where CALL_ENTRY or PUT_ENTRY is true, |+DI20 - -DI20| is at least 10;
\* so a row of the table the views read (at or after 10:00) with MA8 defined is in the
\* CALL view exactly when CALL_ENTRY holds and close >= MA8, and in the PUT view exactly
\* when PUT_ENTRY holds and close <= MA8; a row before 10:00 is in neither.
C9_ViewsShowEntryAboveMA8 ==
    stage = "dashboard" =>
        /\ flags.CALL_ENTRY \/ flags.PUT_ENTRY =>
              DiDefined /\ Abs(row["+DI20"][1] - row["-DI20"][1]) >= 10
        /\ row["Time"][1] >= TenOClock /\ row["MA8"] # NaN =>
              /\ shown.CALL <=> (flags.CALL_ENTRY /\ row["Close"][1] >= row["MA8"][1])
              /\ shown.PUT <=> (flags.PUT_ENTRY /\ row["Close"][1] <= row["MA8"][1])
        /\ row["Time"][1] < TenOClock => ~shown.CALL /\ ~shown.PUT

C9_Witness ==
    /\ stage = "dashboard" /\ shown.CALL
    /\ row["Close"] = row["MA8"] /\ row["-DI20"] = Num(15) /\ row["+DI20"] = Num(35)

====
